---- MODULE Spec2Model ----
(***************************************************************************)
(* Model of the Gandhinagar Comic AI pipeline: the character store, the    *)
(* story store, the retrieval index, character resolution, the Q&A engine  *)
(* and the panel renderer.                                                 *)
(*                                                                         *)
(* The program is single-threaded and synchronous.  A caller is either     *)
(* idle or holds the outcome of the call it has just made (variable        *)
(* last); every handler is one atomic action from an idle state, and       *)
(* Return hands control back to the caller.                                *)
(*                                                                         *)
(* Text is a sequence of atoms.  An atom is a piece of non-blank text, a   *)
(* blank (" " or a newline), or a serialized JSON value.                   *)
(***************************************************************************)
EXTENDS Integers, Sequences, FiniteSets, Bags, TLC

VARIABLES
    chars,      \* character store: entry of CHARACTERS_DIR -> the JSON it holds
    stories,    \* story store: story id -> the record in <id>.json
    index,      \* retrieval index documents that were added under an id
    indexAuto,  \* retrieval index documents added without an id (a bag)
    images,     \* reference image files on disk
    uuids,      \* number of uuid4 values drawn for story ids
    last        \* outcome of the call just made, NoCall when idle

vars == <<chars, stories, index, indexAuto, images, uuids, last>>

(***************************************************************************)
(* Bounds                                                                  *)
(***************************************************************************)
MaxPanels == 3     \* longest list of panel dictionaries rendered
MaxNames == 4      \* longest list of requested character names
MaxDocs == 4       \* most documents the retrieval index holds
MaxItems == 3      \* most entries the character directory holds in SpecStore
MaxStories == 2    \* most stories ever saved

NoCall == [op |-> "idle"]

(***************************************************************************)
(* Text                                                                    *)
(***************************************************************************)
A(s) == [k |-> "s", v |-> s]
J(r) == [k |-> "j", v |-> r]

SP == A(" ")
NL == A("\n")

IsSpace(a) == a.k = "s" /\ a.v \in {" ", "\n"}

\* str.split(): the maximal runs of non-blank atoms, in order.  Computed by
\* halves: a run that crosses the middle is put together again
RECURSIVE Split(_)
Split(s) ==
    IF Len(s) = 0 THEN <<>>
    ELSE IF Len(s) = 1 THEN (IF IsSpace(s[1]) THEN <<>> ELSE <<s>>)
    ELSE LET m == Len(s) \div 2
             l == Split(SubSeq(s, 1, m))
             r == Split(SubSeq(s, m + 1, Len(s)))
         IN  IF ~IsSpace(s[m]) /\ ~IsSpace(s[m + 1])
             THEN SubSeq(l, 1, Len(l) - 1) \o <<l[Len(l)] \o r[1]>> \o Tail(r)
             ELSE l \o r

\* sep.join(parts), computed by halves
RECURSIVE Join(_, _)
Join(parts, sep) ==
    IF parts = <<>> THEN <<>>
    ELSE IF Len(parts) = 1 THEN parts[1]
    ELSE LET m == Len(parts) \div 2
         IN  Join(SubSeq(parts, 1, m), sep) \o sep
             \o Join(SubSeq(parts, m + 1, Len(parts)), sep)

\* s.strip()
RECURSIVE LStrip(_)
LStrip(s) == IF s # <<>> /\ IsSpace(Head(s)) THEN LStrip(Tail(s)) ELSE s

RECURSIVE RStrip(_)
RStrip(s) ==
    IF s # <<>> /\ IsSpace(s[Len(s)]) THEN RStrip(SubSeq(s, 1, Len(s) - 1)) ELSE s

Strip(s) == RStrip(LStrip(s))

\* sub in s
Contains(s, sub) ==
    \E i \in 0..(Len(s) - Len(sub)) : SubSeq(s, i + 1, i + Len(sub)) = sub

\* number of atoms of s equal to a
Count(s, a) == Cardinality({i \in DOMAIN s : s[i] = a})

\* the text of a literal: words separated by single spaces
RECURSIVE Words(_)
Words(ws) ==
    IF ws = <<>> THEN <<>>
    ELSE IF Len(ws) = 1 THEN <<A(ws[1])>>
    ELSE <<A(ws[1]), SP>> \o Words(Tail(ws))

(***************************************************************************)
(* config.py                                                               *)
(***************************************************************************)
SAFETY_SUFFIX == Words(<<"Comic book art style,", "safe for work,", "all-ages friendly">>)

(***************************************************************************)
(* comic_renderer.py                                                       *)
(***************************************************************************)
NoImage == [none |-> TRUE]

ProviderOutcomes == {"ok", "timeout", "http_error"}

\* clean_prompt = " ".join(prompt.split())
CleanPrompt(prompt) == Join(Split(prompt), <<SP>>)

\* urllib.parse.quote: a blank becomes %20
Quote(s) == [i \in DOMAIN s |-> IF s[i] = SP THEN A("%20") ELSE s[i]]

\* the request generate_image_from_prompt makes for prompt, and how it ends
ImageCall(prompt, outcome) ==
    LET clean_prompt == CleanPrompt(prompt)
    IN  [prompt  |-> prompt,
         clean   |-> clean_prompt,
         url     |-> <<A("POLLINATIONS_API_URL")>> \o Quote(clean_prompt),
         outcome |-> outcome]

\* generate_image_from_prompt: the image fetched from the call's url, or None
\* on any provider failure
ImageOf(call) ==
    IF call.outcome = "ok" THEN [of |-> call.clean, dialogue |-> <<>>] ELSE NoImage

generate_image_from_prompt(prompt, outcome) == ImageOf(ImageCall(prompt, outcome))

\* add_dialogue_overlay
add_dialogue_overlay(img, dialogue) ==
    IF dialogue = <<>> \/ Strip(dialogue) = <<>>
    THEN img
    ELSE [img EXCEPT !.dialogue = dialogue]

Range(q) == {q[i] : i \in DOMAIN q}

\* dict.get(key, default)
Get(d, key, default) == IF key \in DOMAIN d THEN d[key] ELSE default

\* a loop that gives up at the first panel whose image fails
RECURSIVE RenderLoopAbort(_, _, _, _)
RenderLoopAbort(prompts, outcomes, i, acc) ==
    IF i > Len(prompts) THEN acc
    ELSE
        LET prompt_data == prompts[i]
            panel_num   == Get(prompt_data, "panel", 1)
            call        == ImageCall(Get(prompt_data, "image_prompt", <<>>), outcomes[i])
            calls2      == Append(acc.calls, call)
        IN  IF ImageOf(call) # NoImage
            THEN RenderLoopAbort(prompts, outcomes, i + 1,
                    [calls |-> calls2,
                     paths |-> Append(acc.paths, panel_num),
                     files |-> [p \in DOMAIN acc.files \cup {panel_num} |->
                                  IF p = panel_num
                                  THEN add_dialogue_overlay(ImageOf(call),
                                           Get(prompt_data, "dialogue", <<>>))
                                  ELSE acc.files[p]]])
            ELSE [acc EXCEPT !.calls = calls2]

\* a loop that asks the provider a second time for a panel that failed
RECURSIVE RenderLoopRetry(_, _, _, _)
RenderLoopRetry(prompts, outcomes, i, acc) ==
    IF i > Len(prompts) THEN acc
    ELSE
        LET prompt_data == prompts[i]
            panel_num   == Get(prompt_data, "panel", 1)
            call        == ImageCall(Get(prompt_data, "image_prompt", <<>>), outcomes[i])
        IN  IF ImageOf(call) # NoImage
            THEN RenderLoopRetry(prompts, outcomes, i + 1,
                    [calls |-> Append(acc.calls, call),
                     paths |-> Append(acc.paths, panel_num),
                     files |-> [p \in DOMAIN acc.files \cup {panel_num} |->
                                  IF p = panel_num
                                  THEN add_dialogue_overlay(ImageOf(call),
                                           Get(prompt_data, "dialogue", <<>>))
                                  ELSE acc.files[p]]])
            ELSE RenderLoopRetry(prompts, outcomes, i + 1,
                    [acc EXCEPT !.calls = acc.calls \o <<call, call>>])

\* the loop of render_comic_panels from panel i on
RECURSIVE RenderLoop(_, _, _, _)
RenderLoop(prompts, outcomes, i, acc) ==
    IF i > Len(prompts) THEN acc
    ELSE
        LET prompt_data  == prompts[i]
            panel_num    == Get(prompt_data, "panel", 1)
            image_prompt == Get(prompt_data, "image_prompt", <<>>)
            dialogue     == Get(prompt_data, "dialogue", <<>>)
            call         == ImageCall(image_prompt, outcomes[i])
            img          == ImageOf(call)
            calls2       == Append(acc.calls, call)
        IN  IF img # NoImage
            THEN LET img2 == IF dialogue # <<>>
                             THEN add_dialogue_overlay(img, dialogue)
                             ELSE img
                 IN  RenderLoop(prompts, outcomes, i + 1,
                        [calls |-> calls2,
                         paths |-> Append(acc.paths, panel_num),
                         files |-> [p \in DOMAIN acc.files \cup {panel_num} |->
                                      IF p = panel_num THEN img2 ELSE acc.files[p]]])
            ELSE RenderLoop(prompts, outcomes, i + 1, [acc EXCEPT !.calls = calls2])

\* render_comic_panels: a path is named by its panel number (panel_<n>.png)
render_comic_panels(prompts, outcomes) ==
    RenderLoop(prompts, outcomes, 1, [calls |-> <<>>, paths |-> <<>>, files |-> <<>>])

(***************************************************************************)
(* prompt_generator.py                                                     *)
(***************************************************************************)
\* generate_comic_prompts after the text provider answered llm: the safety
\* suffix is added to every panel that has an image_prompt key
generate_comic_prompts(llm) ==
    IF ~llm.ok
    THEN [raised |-> TRUE, ret |-> <<>>]
    ELSE [raised |-> FALSE,
          ret |-> [i \in DOMAIN llm.json |->
                     IF "image_prompt" \in DOMAIN llm.json[i]
                     THEN [llm.json[i] EXCEPT
                             !.image_prompt = @ \o <<A("."), SP>> \o SAFETY_SUFFIX]
                     ELSE llm.json[i]]]

(***************************************************************************)
(* story_generator.py                                                      *)
(***************************************************************************)
\* generate_story after the text provider answered llm: the retriever only
\* adds context, a failing text provider ends the call with an exception
generate_story(retriever, llm) ==
    IF ~llm.ok
    THEN [raised |-> TRUE, ret |-> <<>>, textCalls |-> 1]
    ELSE [raised |-> FALSE, ret |-> Strip(llm.text), textCalls |-> 1]

(***************************************************************************)
(* rag_index.py                                                            *)
(***************************************************************************)
FULL_DATA == A("Full Data:")

IndexOutcomes == {"ok", "vs_error", "op_error"}

\* every document the collection holds
IndexDocs == {index[i] : i \in DOMAIN index} \cup BagToSet(indexAuto)

IndexSize == Cardinality(DOMAIN index) + BagCardinality(indexAuto)

\* ', '.join(tags)
TagText(tags) == Join([i \in DOMAIN tags |-> <<A(tags[i])>>], <<A(","), SP>>)

\* the document add_character_to_index builds for char_data
CharacterDoc(char_data, json_path) ==
    [page_content |->
        <<A("Name:"), SP, A(Get(char_data, "name", "Unknown")), NL,
          A("Role:"), SP, A(Get(char_data, "role", "Unknown")), NL,
          A("Visual Description:"), SP>>
        \o Get(char_data, "visual_description", <<>>)
        \o <<NL, A("Personality:"), SP>>
        \o Get(char_data, "personality_description", <<>>)
        \o <<NL, A("Tags:"), SP>> \o TagText(Get(char_data, "tags", <<>>))
        \o <<NL, NL, FULL_DATA, NL, J(char_data)>>,
     metadata |->
        [source |-> json_path, type |-> "character",
         name |-> Get(char_data, "name", "Unknown"),
         character_id |-> Get(char_data, "id", "unknown")]]

\* add_character_to_index: no exception is caught here
add_character_to_index(char_data, json_path, outcome) ==
    IF outcome = "ok"
    THEN [raised |-> FALSE,
          indexAuto |-> indexAuto (+) SetToBag({CharacterDoc(char_data, json_path)})]
    ELSE [raised |-> TRUE, indexAuto |-> indexAuto]

\* An entry of CHARACTERS_DIR is a directory <<slug, prefix>> that may hold a
\* metadata.json, or a flat file <<stem, rest, ".json">>.  What it holds is a
\* record, or text that json.load rejects, or (a directory) no metadata.json.
Malformed == [malformed |-> TRUE]
NoMetadata == [missing |-> TRUE]

IsDir(item) == Len(item) = 2
IsJsonFile(item) == Len(item) = 3 /\ item[3] = ".json"

\* json.load(f) succeeds
Loads(content) == content # Malformed

\* os.path.isdir(item_path) and os.path.exists(json_path)
HasMetadata(item) == item \in DOMAIN chars /\ IsDir(item) /\ chars[item] # NoMetadata

\* a scan that knows the directory layout only
ScannedDirectories(item) ==
    IF HasMetadata(item) /\ Loads(chars[item]) THEN <<chars[item]>> ELSE <<>>

\* the records one entry contributes to the scan of get_all_characters
Scanned(item) ==
    IF IsDir(item)
    THEN IF HasMetadata(item) /\ Loads(chars[item]) THEN <<chars[item]>> ELSE <<>>
    ELSE IF IsJsonFile(item) /\ Loads(chars[item]) THEN <<chars[item]>> ELSE <<>>

\* a scan that ends at the first entry that does not load
RECURSIVE ScanFromAbort(_, _)
ScanFromAbort(order, i) ==
    IF i > Len(order) \/ chars[order[i]] = Malformed THEN <<>>
    ELSE (IF chars[order[i]] = NoMetadata THEN <<>> ELSE <<chars[order[i]]>>)
         \o ScanFromAbort(order, i + 1)

\* get_all_characters: the records of the entries, in the order in which
\* os.listdir names them; nothing is merged and nothing is removed
RECURSIVE ScanFrom(_, _)
ScanFrom(order, i) ==
    IF i > Len(order) THEN <<>> ELSE Scanned(order[i]) \o ScanFrom(order, i + 1)

get_all_characters(order) == ScanFrom(order, 1)

\* the orders in which os.listdir can name the entries S
Listings(S) ==
    {o \in [1..Cardinality(S) -> S] : \A i, j \in DOMAIN o : i # j => o[i] # o[j]}

(***************************************************************************)
(* character_manager.py                                                    *)
(***************************************************************************)
CharNames == {"Kabir", "Riya S"}
Prefixes == {"1f0c", "9ab2"}       \* the first 8 hex digits of a uuid4
Descriptions == {<<A("messy"), SP, A("hair")>>}

\* str.lower()
Lower(n) ==
    CASE n \in {"Kabir", "KABIR", "kabir"} -> "kabir"
      [] n \in {"Riya S", "riya s"} -> "riya s"
      [] n \in {"Show", "show"} -> "show"
      [] n \in {"Who", "who"} -> "who"
      [] n \in {"Kabir?", "kabir?"} -> "kabir?"
      [] OTHER -> n

\* str.replace(" ", "_")
Underscored(n) == IF n = "riya s" THEN "riya_s" ELSE n

\* char_id = name.lower().replace(" ", "_") + "_" + str(uuid.uuid4())[:8]
CharId(name, prefix) == <<Underscored(Lower(name)), prefix>>

DefaultTags == <<"student", "school">>

\* the tags argument: left out (None) or a list
NoTags == [given |-> FALSE, value |-> <<>>]

\* tags or ["student", "school"]
TagsOrDefault(tags) == IF ~tags.given \/ tags.value = <<>> THEN DefaultTags ELSE tags.value

\* the arguments of a creation that end up in the record
Supplied(name, description, tags) ==
    [name |-> name, role |-> "student", age |-> <<>>, visual_description |-> description,
     personality_description |-> <<>>, tags |-> tags]

\* a metadata.json with a record is in the directory item
HasRecord(item) == HasMetadata(item) /\ Loads(chars[item])

\* a makedirs that leaves an empty metadata.json in the new directory
MakeDirWithStub(char_id) ==
    [d \in DOMAIN chars \cup {char_id} |-> IF d = char_id THEN Malformed ELSE chars[d]]

\* os.makedirs(char_dir, exist_ok=True)
MakeDir(char_id) ==
    IF char_id \in DOMAIN chars THEN chars
    ELSE [d \in DOMAIN chars \cup {char_id} |-> IF d = char_id THEN NoMetadata ELSE chars[d]]

\* get_character_by_id: json.load is not guarded
NoCharacter == [none |-> TRUE]
get_character_by_id(char_id) ==
    IF HasMetadata(char_id)
    THEN IF Loads(chars[char_id])
         THEN [raised |-> FALSE, ret |-> chars[char_id]]
         ELSE [raised |-> TRUE, ret |-> NoCharacter]
    ELSE [raised |-> FALSE, ret |-> NoCharacter]

\* write of metadata.json in the directory of char_data.id
WriteMetadata(char_data) ==
    [d \in DOMAIN chars \cup {char_data.id} |->
        IF d = char_data.id THEN char_data ELSE chars[d]]

\* add_character_from_images with two uploaded images
AddCharacterFromImages(name, prefix, description, tags, idx) ==
    LET char_id   == CharId(name, prefix)
        char_data == [id |-> char_id, name |-> name, role |-> "student", age |-> <<>>,
                      visual_description |-> description,
                      personality_description |-> <<>>,
                      tags |-> TagsOrDefault(tags),
                      image_paths |-> << <<char_id, "reference_1.png">>,
                                         <<char_id, "reference_2.png">> >>]
        added     == add_character_to_index(char_data, char_id, idx)
    IN  /\ last = NoCall
        /\ idx = "ok" => IndexSize < MaxDocs
        /\ images' = images \cup Range(char_data.image_paths)
        /\ chars' = WriteMetadata(char_data)
        /\ indexAuto' = added.indexAuto
        /\ last' = [op |-> "add_character_from_images", raised |-> added.raised,
                    ret |-> char_data, calls |-> <<>>, textCalls |-> 0,
                    idx |-> idx, written |-> TRUE,
                    supplied |-> Supplied(name, description, tags),
                    fresh |-> ~HasRecord(char_id)]
        /\ UNCHANGED <<stories, index, uuids>>

\* the prompt add_character_from_description sends for the reference image
PortraitPrompt(name, role, description, age) ==
    <<A("Character portrait of"), SP, A(name), A(","), SP, A(role), A("."), SP, NL>>
    \o description \o <<A("."), SP, NL>>
    \o (IF age # <<>> THEN <<A("Age:"), SP>> \o age \o <<A(".")>> ELSE <<>>)
    \o <<NL, A("Full body or upper body shot."), NL>>
    \o SAFETY_SUFFIX

\* add_character_from_description
AddCharacterFromDescription(name, prefix, description, tags, image, idx) ==
    LET char_id   == CharId(name, prefix)
        prompt    == PortraitPrompt(name, "student", description, <<>>)
        img       == generate_image_from_prompt(prompt, image)
        char_data == [id |-> char_id, name |-> name, role |-> "student", age |-> <<>>,
                      visual_description |-> description,
                      personality_description |-> <<>>,
                      tags |-> TagsOrDefault(tags),
                      image_paths |-> << <<char_id, "reference_generated.png">> >>,
                      generated |-> TRUE]
        added     == add_character_to_index(char_data, char_id, idx)
    IN  /\ last = NoCall
        /\ IF img = NoImage
           THEN /\ idx = "ok"
                /\ last' = [op |-> "add_character_from_description", raised |-> TRUE,
                            ret |-> char_data, calls |-> <<ImageCall(prompt, image)>>,
                            textCalls |-> 0, idx |-> idx, written |-> FALSE,
                            supplied |-> Supplied(name, description, tags),
                            fresh |-> ~HasRecord(char_id)]
                /\ chars' = MakeDir(char_id)
                /\ UNCHANGED <<indexAuto, images>>
           ELSE /\ idx = "ok" => IndexSize < MaxDocs
                /\ images' = images \cup Range(char_data.image_paths)
                /\ chars' = WriteMetadata(char_data)
                /\ indexAuto' = added.indexAuto
                /\ last' = [op |-> "add_character_from_description",
                            raised |-> added.raised,
                            ret |-> char_data, calls |-> <<ImageCall(prompt, image)>>,
                            textCalls |-> 0, idx |-> idx, written |-> TRUE,
                            supplied |-> Supplied(name, description, tags),
                            fresh |-> ~HasRecord(char_id)]
        /\ UNCHANGED <<stories, index, uuids>>

\* an indexing that lets the vector store assign the document identifier
add_story_to_index_auto_id(story_text, metadata, outcome) ==
    LET md == [type |-> "story", source |-> "user_generated"] @@ metadata
    IN  [raised |-> FALSE, metadata |-> md,
         index |-> [i \in DOMAIN index \cup {md.id + MaxStories} |->
                      IF i = md.id + MaxStories
                      THEN [page_content |-> story_text, metadata |-> md]
                      ELSE index[i]]]

\* add_story_to_index with the caller's metadata dictionary, which it updates
\* in place: the dictionary afterwards, the document, and whether it raised
add_story_to_index(story_text, metadata, outcome) ==
    IF outcome = "vs_error"
    THEN [raised |-> TRUE, metadata |-> metadata, index |-> index]
    ELSE LET md  == [type |-> "story", source |-> "user_generated"]
                    @@ (IF "id" \in DOMAIN metadata THEN metadata
                        ELSE metadata @@ [id |-> uuids + 1])
             doc == [page_content |-> story_text, metadata |-> md]
         IN  IF outcome = "op_error"
             THEN [raised |-> TRUE, metadata |-> md, index |-> index]
             ELSE [raised |-> FALSE, metadata |-> md,
                   index |-> [i \in DOMAIN index \cup {md.id} |->
                                IF i = md.id THEN doc ELSE index[i]]]

\* a delete that leaves the index as it is
delete_document_skipped(doc_id, outcome) ==
    [raised |-> outcome = "vs_error", index |-> index]

\* delete_document: get_vectorstore is called outside the try, a failing
\* delete is caught
delete_document(doc_id, outcome) ==
    IF outcome = "vs_error" THEN [raised |-> TRUE, index |-> index]
    ELSE IF outcome = "op_error" THEN [raised |-> FALSE, index |-> index]
    ELSE [raised |-> FALSE, index |-> [i \in DOMAIN index \ {doc_id} |-> index[i]]]

(***************************************************************************)
(* story_manager.py                                                        *)
(***************************************************************************)
\* a story of plain text, a story that quotes the full-record marker, and a
\* story that quotes a whole character sheet
StoryTexts ==
    { <<A("Kabir"), SP, A("woke"), SP, A("up"), SP, A("late"), SP, A("for"), SP, A("school.")>>,
      <<FULL_DATA, SP, A("missing")>>,
      <<A("Sheet."), NL, FULL_DATA, NL,
        J([name |-> "Kabir", role |-> "hero", visual_description |-> <<A("cape")>>])>> }

\* title = " ".join(story_text.split()[:5]) + "..."
DefaultTitle(story_text) ==
    LET words == Split(story_text)
    IN  Join(SubSeq(words, 1, IF Len(words) < 5 THEN Len(words) ELSE 5), <<SP>>)
        \o <<A("...")>>

\* the sort of get_all_stories, newest first
RECURSIVE StoriesFrom(_)
StoriesFrom(ids) ==
    IF ids = {} THEN <<>>
    ELSE LET newest == CHOOSE i \in ids : \A j \in ids : stories[j].created_at <= stories[i].created_at
         IN  <<stories[newest]>> \o StoriesFrom(ids \ {newest})

\* the files that do not load are skipped before the sort
get_all_stories == StoriesFrom({i \in DOMAIN stories : Loads(stories[i])})

\* save_story: the id is a fresh uuid4, the time stamp the tick of the save
SaveStory(story_text, title, idx) ==
    LET story_id   == uuids + 1
        story_data == [id |-> story_id,
                       title |-> IF title = <<>> THEN DefaultTitle(story_text) ELSE title,
                       content |-> story_text,
                       created_at |-> uuids + 1,
                       type |-> "story"]
        added      == add_story_to_index(story_text, story_data, idx)
    IN  /\ last = NoCall
        /\ uuids < MaxStories
        /\ idx = "ok" => IndexSize < MaxDocs
        /\ uuids' = uuids + 1
        /\ stories' = [i \in DOMAIN stories \cup {story_id} |->
                         IF i = story_id THEN story_data ELSE stories[i]]
        /\ index' = added.index
        /\ last' = [op |-> "save_story", raised |-> added.raised, ret |-> added.metadata,
                    calls |-> <<>>, textCalls |-> 0, idx |-> idx]
        /\ UNCHANGED <<chars, indexAuto, images>>

\* a delete_story that clears the index before it removes the file
DeleteStoryIndexFirst(story_id, remove, idx) ==
    LET exists  == story_id \in DOMAIN stories
        deleted == delete_document(story_id, idx)
        call    == [op |-> "delete_story", id |-> story_id, existed |-> exists,
                    indexed |-> story_id \in DOMAIN index, idx |-> idx,
                    calls |-> <<>>, textCalls |-> 0]
    IN  /\ last = NoCall
        /\ index' = deleted.index
        /\ IF exists /\ ~remove
           THEN /\ last' = call @@ [raised |-> deleted.raised, ret |-> FALSE, indexCalls |-> 1]
                /\ UNCHANGED stories
           ELSE /\ ~exists => remove
                /\ stories' = [i \in DOMAIN stories \ {story_id} |-> stories[i]]
                /\ last' = call @@ [raised |-> deleted.raised, ret |-> TRUE,
                                    indexCalls |-> 1]
        /\ UNCHANGED <<chars, indexAuto, images, uuids>>

\* delete_story: remove tells whether os.remove succeeds
DeleteStory(story_id, remove, idx) ==
    LET exists  == story_id \in DOMAIN stories
        deleted == delete_document(story_id, idx)
        call    == [op |-> "delete_story", id |-> story_id, existed |-> exists,
                    indexed |-> story_id \in DOMAIN index, idx |-> idx,
                    calls |-> <<>>, textCalls |-> 0]
    IN  /\ last = NoCall
        /\ IF exists /\ ~remove
           THEN /\ idx = "ok"
                /\ last' = call @@ [raised |-> FALSE, ret |-> FALSE, indexCalls |-> 0]
                /\ UNCHANGED <<stories, index>>
           ELSE /\ ~exists => remove
                /\ stories' = [i \in DOMAIN stories \ {story_id} |-> stories[i]]
                /\ index' = deleted.index
                /\ last' = call @@ [raised |-> deleted.raised, ret |-> TRUE,
                                    indexCalls |-> 1]
        /\ UNCHANGED <<chars, indexAuto, images, uuids>>

(***************************************************************************)
(* image_analyzer.py                                                       *)
(***************************************************************************)
RequestedNames == {"KABIR", "Riya S"}

\* what one call of search_characters(name, k=1) meets in the provider: the
\* best match among the documents, no match when there is no document, or a
\* failing similarity search
NoDoc == [none |-> TRUE]
SearchOutcomes ==
    {[kind |-> "error", doc |-> NoDoc]}
    \cup (IF IndexDocs = {} THEN {[kind |-> "none", doc |-> NoDoc]} ELSE {})
    \cup {[kind |-> "doc", doc |-> d] : d \in IndexDocs}

\* search_characters: a failing search is caught and yields no result
search_characters(outcome) == IF outcome.kind = "doc" THEN <<outcome.doc>> ELSE <<>>

\* content.split("Full Data:", 1)[1].strip()
RECURSIVE AfterMarker(_)
AfterMarker(content) ==
    IF content = <<>> THEN <<>>
    ELSE IF Head(content) = FULL_DATA THEN Strip(Tail(content))
    ELSE AfterMarker(Tail(content))

\* json.loads(json_str): the value, or a failure when json_str is not one
\* serialized value
JsonLoads(json_str) ==
    IF Len(json_str) = 1 /\ json_str[1].k = "j"
    THEN [ok |-> TRUE, value |-> json_str[1].v]
    ELSE [ok |-> FALSE, value |-> NoDoc]

\* the record embedded in a search result, when it is accepted for name
AcceptedFromIndex(results, name) ==
    IF results = <<>> THEN <<>>
    ELSE LET content == results[1].page_content
         IN  IF ~Contains(content, <<FULL_DATA>>) THEN <<>>
             ELSE LET parsed == JsonLoads(AfterMarker(content))
                  IN  IF parsed.ok /\ Lower(Get(parsed.value, "name", "")) = Lower(name)
                      THEN <<parsed.value>>
                      ELSE <<>>

\* the first record of all_characters whose name is name, case-insensitively
RECURSIVE FirstByName(_, _)
FirstByName(all_characters, name) ==
    IF all_characters = <<>> THEN <<>>
    ELSE IF Lower(Get(Head(all_characters), "name", "")) = Lower(name)
         THEN <<Head(all_characters)>>
         ELSE FirstByName(Tail(all_characters), name)

\* a resolution that trusts the index alone
ResolveNameIndexOnly(name, outcome, all_characters) ==
    AcceptedFromIndex(search_characters(outcome), name)

\* the resolution of one requested name: index first, then the store scan
ResolveName(name, outcome, all_characters) ==
    LET accepted == AcceptedFromIndex(search_characters(outcome), name)
    IN  IF accepted # <<>> THEN accepted ELSE FirstByName(all_characters, name)

\* a loop that ends at the first name that is not resolved
RECURSIVE ResolveNamesUntilMiss(_, _, _)
ResolveNamesUntilMiss(names, oracle, all_characters) ==
    IF names = <<>> THEN <<>>
    ELSE LET found == ResolveName(Head(names), oracle[Head(names)], all_characters)
         IN  IF found = <<>> THEN <<>>
             ELSE found \o ResolveNamesUntilMiss(Tail(names), oracle, all_characters)

\* the loop over character_names
RECURSIVE ResolveNames(_, _, _)
ResolveNames(names, oracle, all_characters) ==
    IF names = <<>> THEN <<>>
    ELSE ResolveName(Head(names), oracle[Head(names)], all_characters)
         \o ResolveNames(Tail(names), oracle, all_characters)

\* the flat description of a record, or the string values of the legacy
\* visual_features mapping joined by ", "
VisualDesc(char_data) ==
    IF "visual_description" \in DOMAIN char_data THEN char_data.visual_description
    ELSE IF "visual_features" \in DOMAIN char_data
         THEN Join(char_data.visual_features, <<A(","), SP>>)
         ELSE <<>>

\* "Name (role): visual_description"
CharacterClause(char_data) ==
    <<A(Get(char_data, "name", "character")), SP, A("("),
      A(Get(char_data, "role", "student")), A("):"), SP>> \o VisualDesc(char_data)

\* the list as it is
Untruncated(l) == l

\* list[:3]
First3(l) == SubSeq(l, 1, IF Len(l) < 3 THEN Len(l) ELSE 3)

NameList(l) == [i \in DOMAIN l |-> <<A(Get(l[i], "name", "character"))>>]

\* the image prompt of recreate_with_characters
RecreatePrompt(character_data_list, style_description, custom_prompt) ==
    LET first3 == First3(character_data_list)
    IN  <<A("Recreate this image style with characters"), SP>>
        \o Join(NameList(first3), <<A(","), SP>>)
        \o <<A("."), NL, NL, A("ORIGINAL STYLE:"), SP>> \o style_description
        \o <<NL, NL, A("CHARACTERS TO INCLUDE:"), NL>>
        \o Join([i \in DOMAIN first3 |-> CharacterClause(first3[i])], <<A(";"), SP>>)
        \o <<NL, NL>> \o custom_prompt
        \o <<NL, NL, A("Indian school setting, school uniforms."), SP>> \o SAFETY_SUFFIX

\* a check that never stops the recreation
NeverEmpty(character_data_list) == FALSE

\* if not character_data_list
NoCharactersFound(character_data_list) == character_data_list = <<>>

\* a resolution that hands the listing over back to front
ResolutionReversed(character_names, oracle, all_characters) ==
    IF character_names # <<>>
    THEN ResolveNames(character_names, oracle, all_characters)
    ELSE [i \in DOMAIN all_characters |-> all_characters[Len(all_characters) + 1 - i]]

\* Step 2: the named characters when names are given, every character of
\* get_all_characters otherwise
Resolution(character_names, oracle, all_characters) ==
    IF character_names # <<>>
    THEN ResolveNames(character_names, oracle, all_characters)
    ELSE all_characters

\* recreate_with_characters.  character_names empty stands for None and for [];
\* vs tells whether get_vectorstore succeeds, oracle what each search meets,
\* order is the directory listing, image the outcome of the image provider
recreate_with_characters(character_names, custom_prompt, style_description, vs, oracle, order, image) ==
    LET all_characters == get_all_characters(order)
        base == [names |-> character_names, vs |-> vs, oracle |-> oracle, resolved |-> <<>>,
                 searches |-> 0, calls |-> <<>>, textCalls |-> 1, image_path |-> NoImage]
    IN  IF character_names # <<>> /\ ~vs
        THEN [base EXCEPT !.searches = 1] @@ [description |-> "error"]
        ELSE
          LET character_data_list == Resolution(character_names, oracle, all_characters)
              searches == Len(character_names)
          IN  IF NoCharactersFound(character_data_list)
              THEN [base EXCEPT !.searches = searches] @@ [description |-> "no_characters"]
              ELSE
                LET prompt == RecreatePrompt(character_data_list, style_description,
                                             custom_prompt)
                    call   == ImageCall(prompt, image)
                    img    == ImageOf(call)
                IN  [base EXCEPT !.resolved = character_data_list,
                                 !.searches = searches,
                                 !.calls = <<call>>,
                                 !.image_path = img]
                    @@ [description |-> IF img # NoImage THEN "recreated" ELSE "failed"]

(***************************************************************************)
(* qa_engine.py                                                            *)
(***************************************************************************)
QA_K == 4    \* search_kwargs={"k": 4}

RetrieverOutcomes == {"ok", "load_error", "invoke_error"}

\* str.lower() of a text
LowerText(t) == [i \in DOMAIN t |-> IF t[i].k = "s" THEN A(Lower(t[i].v)) ELSE t[i]]

image_request_keywords ==
    { Words(<<"picture">>), Words(<<"image">>), Words(<<"photo">>), Words(<<"show", "me">>),
      Words(<<"give", "me", "a", "picture">>), Words(<<"what", "does">>),
      Words(<<"look", "like">>), Words(<<"give", "image">>), Words(<<"show", "image">>) }

IsImageRequest(query) ==
    \E keyword \in image_request_keywords : Contains(LowerText(query), keyword)

\* the character sheet answer_question reads out of one retrieved document
SheetOf(doc) ==
    IF Contains(doc.page_content, <<FULL_DATA>>)
    THEN LET parsed == JsonLoads(AfterMarker(doc.page_content))
         IN  IF parsed.ok THEN <<parsed.value>> ELSE <<>>
    ELSE IF Get(doc.metadata, "type", "") = "character" /\ "source" \in DOMAIN doc.metadata
              /\ HasRecord(doc.metadata.source)
         THEN <<chars[doc.metadata.source]>>
         ELSE <<>>

\* the loop over the retrieved documents: sheets and reference images
RECURSIVE Gather(_, _)
Gather(docs, acc) ==
    IF docs = <<>> THEN acc
    ELSE LET sheet == SheetOf(Head(docs))
             paths == IF sheet = <<>> THEN <<>> ELSE Get(sheet[1], "image_paths", <<>>)
             found == SelectSeq(paths, LAMBDA path : path \in images)
             news  == [i \in DOMAIN found |->
                         IF found[i] \in Range(acc.relevant_images)
                            \/ \E j \in 1..(i - 1) : found[j] = found[i]
                         THEN <<>> ELSE <<found[i]>>]
         IN  Gather(Tail(docs),
                    [character_data_list |-> acc.character_data_list \o sheet,
                     relevant_images |-> acc.relevant_images \o Join(news, <<>>)])

\* the image prompt of answer_question, <<>> when no sheet has a description
QAPrompt(character_data_list) ==
    LET first3 == First3(character_data_list)
        character_names == NameList(first3)
        character_descriptions ==
            SelectSeq([i \in DOMAIN first3 |->
                         IF VisualDesc(first3[i]) # <<>> THEN CharacterClause(first3[i])
                         ELSE <<>>],
                      LAMBDA clause : clause # <<>>)
    IN  IF character_descriptions = <<>> THEN <<>>
        ELSE IF Len(character_names) > 1
        THEN <<A("Group scene with"), SP>> \o Join(character_names, <<A(","), SP>>)
             \o <<SP, A("from Gandhinagar School."), SP>>
             \o Join(character_descriptions, <<A(";"), SP>>)
             \o <<A("."), SP, A("Indian school setting, all wearing school uniforms."), SP>>
             \o SAFETY_SUFFIX
        ELSE <<A("Character portrait:"), SP>> \o character_descriptions[1]
             \o <<A("."), SP, A("Indian school student in school uniform."), SP,
                  A("Upper body shot, clear face, friendly expression."), SP>>
             \o SAFETY_SUFFIX

GENERATED_PATH == <<"tmp", "qa_generated.png">>

\* answer_question.  retriever tells how loading and invoking the retriever
\* end, docs is what it retrieves, image and text are the outcomes of the
\* two providers
\* a retrieval stage that lets the failure of the retriever out
RetrieveContextUnguarded(retriever, docs) ==
    [raised |-> retriever # "ok", character_data_list |-> <<>>, relevant_images |-> <<>>]
    @@ Gather(docs, [character_data_list |-> <<>>, relevant_images |-> <<>>])

\* the retrieval stage of answer_question: load_retriever returns None when
\* it fails, and a failing retriever.invoke is caught
RetrieveContext(retriever, docs) ==
    IF retriever = "ok"
    THEN [raised |-> FALSE]
         @@ Gather(docs, [character_data_list |-> <<>>, relevant_images |-> <<>>])
    ELSE [raised |-> FALSE, character_data_list |-> <<>>, relevant_images |-> <<>>]

\* answer_question; an exception of the retrieval stage would end the call
answer_question(query, retriever, docs, image, text) ==
    LET gathered == RetrieveContext(retriever, docs)
        character_data_list == gathered.character_data_list
        prompt   == IF IsImageRequest(query) /\ character_data_list # <<>>
                    THEN QAPrompt(character_data_list) ELSE <<>>
        calls    == IF prompt # <<>> THEN <<ImageCall(prompt, image)>> ELSE <<>>
        relevant_images ==
            IF calls # <<>> /\ ImageOf(calls[1]) # NoImage
            THEN Append(gathered.relevant_images, GENERATED_PATH)
            ELSE gathered.relevant_images
    IN  IF gathered.raised
        THEN [query |-> query, retriever |-> retriever, docs |-> docs, raised |-> TRUE,
              sheets |-> <<>>, calls |-> <<>>, textCalls |-> 0, announced |-> 0,
              relevant_images |-> <<>>, answered |-> FALSE, images |-> <<>>]
        ELSE [query |-> query, retriever |-> retriever, docs |-> docs, raised |-> FALSE,
              sheets |-> character_data_list,
              calls |-> calls, textCalls |-> 1,
              announced |-> Len(relevant_images),
              relevant_images |-> relevant_images,
              answered |-> text = "ok",
              images |-> IF text = "ok" THEN First3(relevant_images) ELSE <<>>]

(***************************************************************************)
(* Inputs of the renderer                                                  *)
(***************************************************************************)
PanelDicts ==
    { [panel |-> 1, image_prompt |-> <<A("classroom")>>, dialogue |-> <<A("late!")>>],
      [panel |-> 2, image_prompt |-> <<A("gate"), NL, SP, A("trees"), SP>>],
      [panel |-> 2, dialogue |-> <<SP>>],
      [image_prompt |-> <<A("puppy"), A("."), SP>> \o SAFETY_SUFFIX] }

RECURSIVE SeqsUpTo(_, _)
SeqsUpTo(S, n) ==
    IF n = 0 THEN {<<>>}
    ELSE LET shorter == SeqsUpTo(S, n - 1)
         IN  shorter \cup {Append(q, x) : q \in {r \in shorter : Len(r) = n - 1}, x \in S}

PanelLists == SeqsUpTo(PanelDicts, MaxPanels)

LlmAnswers ==
    {[ok |-> FALSE, json |-> <<>>]} \cup {[ok |-> TRUE, json |-> l] : l \in PanelLists}

(***************************************************************************)
(* State                                                                   *)
(***************************************************************************)
Init ==
    /\ chars = <<>>
    /\ stories = <<>>
    /\ index = <<>>
    /\ indexAuto = EmptyBag
    /\ images = {}
    /\ uuids = 0
    /\ last = NoCall

stores == <<chars, stories, index, indexAuto, images, uuids>>

\* the caller takes the outcome of the call and is idle again
Return ==
    /\ last # NoCall
    /\ last' = NoCall
    /\ UNCHANGED stores

(***************************************************************************)
(* Renderer actions                                                        *)
(***************************************************************************)
\* what the text provider answers to a story idea
LlmStories ==
    {[ok |-> FALSE, text |-> <<>>]}
    \cup {[ok |-> TRUE, text |-> <<NL>> \o t \o <<SP, NL>>] : t \in StoryTexts}

GenerateStory ==
    /\ last = NoCall
    /\ \E retriever \in RetrieverOutcomes, llm \in LlmStories :
         LET r == generate_story(retriever, llm)
         IN  last' = [op |-> "generate_story", raised |-> r.raised, ret |-> r.ret,
                      retriever |-> retriever, calls |-> <<>>, textCalls |-> r.textCalls]
    /\ UNCHANGED stores

GenerateComicPrompts ==
    /\ last = NoCall
    /\ \E llm \in LlmAnswers :
         LET r == generate_comic_prompts(llm)
         IN  last' = [op |-> "generate_comic_prompts", raised |-> r.raised,
                      ret |-> r.ret, calls |-> <<>>, textCalls |-> 1]
    /\ UNCHANGED stores

\* render_comic_panels over a list of the caller or over the list that
\* generate_comic_prompts has just returned
RenderComicPanels ==
    /\ \E prompts \in (IF last = NoCall THEN PanelLists
                       ELSE IF last.op = "generate_comic_prompts" /\ ~last.raised
                            THEN {last.ret} ELSE {}) :
         \E outcomes \in [1..Len(prompts) -> ProviderOutcomes] :
            LET r == render_comic_panels(prompts, outcomes)
            IN  last' = [op |-> "render_comic_panels", raised |-> FALSE,
                         prompts |-> prompts, ret |-> r.paths, files |-> r.files,
                         calls |-> r.calls, textCalls |-> 0]
    /\ UNCHANGED stores

NextRender == GenerateStory \/ GenerateComicPrompts \/ RenderComicPanels \/ Return

SpecRender == Init /\ [][NextRender]_vars

(***************************************************************************)
(* Character store, retrieval index, resolution and Q&A                    *)
(***************************************************************************)
\* the uuid4 prefix met by the creations of Spec
SomePrefix == CHOOSE p \in Prefixes : TRUE

AddFromImages ==
    \E name \in CharNames, d \in Descriptions :
        AddCharacterFromImages(name, SomePrefix, d, NoTags, "ok")

SaveStoryIndexed == \E text \in StoryTexts : SaveStory(text, <<>>, "ok")

\* n times the name x
RECURSIVE Repeat(_, _)
Repeat(x, n) == IF n = 0 THEN <<>> ELSE <<x>> \o Repeat(x, n - 1)

\* the requested lists: every list of up to 2 names, and the longer lists
\* that repeat one name and end with any name
NameLists ==
    SeqsUpTo(RequestedNames, 2)
    \cup {Repeat(x, n - 1) \o <<y>> : x \in RequestedNames, y \in RequestedNames, n \in 3..MaxNames}

StyleAnswer == <<A("anime"), NL, A("style")>>

\* the outcomes of the image provider met by the orchestrators
ImageOutcomes == {"ok", "timeout"}

Recreate ==
    /\ last = NoCall
    /\ \E names \in NameLists :
         \/ /\ names # <<>>
            /\ last' = [op |-> "recreate_with_characters", raised |-> FALSE, order |-> <<>>]
                       @@ recreate_with_characters(names, <<>>, StyleAnswer, FALSE,
                                                   <<>>, <<>>, "ok")
         \/ \E order \in Listings(DOMAIN chars), image \in ImageOutcomes,
               oracle \in [Range(names) -> SearchOutcomes] :
              last' = [op |-> "recreate_with_characters", raised |-> FALSE, order |-> order]
                      @@ recreate_with_characters(names, <<>>, StyleAnswer, TRUE,
                                                  oracle, order, image)
    /\ UNCHANGED stores

Queries == { Words(<<"Who", "is", "Kabir?">>), Words(<<"Show", "me", "Kabir">>) }

TextOutcomes == {"ok", "error"}

\* the documents of the index, each as often as the index holds it
RECURSIVE BagSeq(_)
BagSeq(B) ==
    IF BagToSet(B) = {} THEN <<>>
    ELSE LET d == CHOOSE x \in BagToSet(B) : TRUE
         IN  <<d>> \o BagSeq(B (-) SetToBag({d}))

RECURSIVE ById(_)
ById(ids) ==
    IF ids = {} THEN <<>>
    ELSE LET i == CHOOSE x \in ids : TRUE IN <<index[i]>> \o ById(ids \ {i})

AllDocs == ById(DOMAIN index) \o BagSeq(indexAuto)

Min(a, b) == IF a < b THEN a ELSE b

\* the rankings a retriever of k documents can return
Retrieved(k) ==
    LET all == AllDocs
        m   == Min(k, Len(all))
    IN  {[i \in 1..m |-> all[pick[i]]] :
           pick \in {f \in [1..m -> DOMAIN all] : \A i, j \in 1..m : i # j => f[i] # f[j]}}

AnswerQuestion ==
    /\ last = NoCall
    /\ \E query \in Queries, text \in TextOutcomes :
         \/ \E retriever \in RetrieverOutcomes \ {"ok"} :
              last' = [op |-> "answer_question"]
                      @@ answer_question(query, retriever, <<>>, "ok", text)
         \/ \E docs \in Retrieved(QA_K), image \in ImageOutcomes :
              last' = [op |-> "answer_question"]
                      @@ answer_question(query, "ok", docs, image, text)
    /\ UNCHANGED stores

Next == AddFromImages \/ SaveStoryIndexed \/ Recreate \/ AnswerQuestion \/ Return

Spec == Init /\ [][Next]_vars

(***************************************************************************)
(* Character creation with a failing image provider or a failing index     *)
(***************************************************************************)
\* the name under which the creations of SpecCreate are repeated
RepeatedName == "Kabir"

CreateFromImages ==
    \E prefix \in Prefixes, d \in Descriptions, idx \in IndexOutcomes :
        AddCharacterFromImages(RepeatedName, prefix, d, NoTags, idx)

CreateFromDescription ==
    \E prefix \in Prefixes, d \in Descriptions,
       image \in ProviderOutcomes, idx \in IndexOutcomes :
        AddCharacterFromDescription(RepeatedName, prefix, d, NoTags, image, idx)

NextCreate == CreateFromImages \/ CreateFromDescription \/ Return

SpecCreate == Init /\ [][NextCreate]_vars

(***************************************************************************)
(* The story store and its index documents                                 *)
(***************************************************************************)
StoryIds == 1..MaxStories

Titles == {<<>>, Words(<<"Test", "Story">>)}

SaveStoryAny ==
    \E text \in StoryTexts, title \in Titles, idx \in IndexOutcomes :
        SaveStory(text, title, idx)

DeleteStoryAny ==
    \E id \in StoryIds, remove \in BOOLEAN, idx \in IndexOutcomes :
        DeleteStory(id, remove, idx)

NextStory == SaveStoryAny \/ DeleteStoryAny \/ Return

SpecStory == Init /\ [][NextStory]_vars

\* the same calls when no store and no index operation fails
DeleteStoryClean == \E id \in StoryIds : DeleteStory(id, TRUE, "ok")

SaveStoryClean == \E text \in StoryTexts, title \in Titles : SaveStory(text, title, "ok")

NextStoryClean == SaveStoryClean \/ DeleteStoryClean \/ Return

SpecStoryClean == Init /\ [][NextStoryClean]_vars

(***************************************************************************)
(* The character and story directories as the scans and lookups meet them  *)
(***************************************************************************)
TagArgs == {NoTags, [given |-> TRUE, value |-> <<>>], [given |-> TRUE, value |-> <<"hero">>]}

Fits(items) == Cardinality(DOMAIN chars \cup items) <= MaxItems

\* the uuid4 prefix drawn names no directory yet, as it does but for a
\* collision (SpecCreate)
Unused(char_id) == char_id \notin DOMAIN chars

StoreAddFromImages ==
    \E name \in CharNames, d \in Descriptions, tags \in TagArgs :
        /\ Fits({CharId(name, SomePrefix)}) /\ Unused(CharId(name, SomePrefix))
        /\ AddCharacterFromImages(name, SomePrefix, d, tags, "ok")

StoreAddFromDescription ==
    \E name \in CharNames, d \in Descriptions, tags \in TagArgs, image \in ImageOutcomes :
        /\ Fits({CharId(name, SomePrefix)}) /\ Unused(CharId(name, SomePrefix))
        /\ AddCharacterFromDescription(name, SomePrefix, d, tags, image, "ok")

\* setup.py: the student files it writes into the students directory
rohan_data ==
    [id |-> <<"student", "01">>, name |-> "Rohan Patel", role |-> "The Anxious Techie",
     visual_features |-> << <<A("Neatly parted, oiled")>>, <<A("Thick black rectangular glasses")>> >>]

kabir_data ==
    [id |-> <<"student", "02">>, name |-> "Kabir Khan", role |-> "The Charismatic Backbencher",
     visual_features |-> << <<A("Messy, windblown style")>>, <<A("Loose tie")>> >>]

SetupFiles ==
    (<<"student_01", "rohan", ".json">> :> rohan_data)
    @@ (<<"student_02", "kabir", ".json">> :> kabir_data)

create_gandhinagar_project ==
    /\ last = NoCall
    /\ Fits(DOMAIN SetupFiles)
    /\ chars' = SetupFiles @@ chars
    /\ last' = [op |-> "create_gandhinagar_project", raised |-> FALSE,
                calls |-> <<>>, textCalls |-> 0]
    /\ UNCHANGED <<stories, index, indexAuto, images, uuids>>

\* the file <char_id>.json of the flat layout
FlatOf(char_id) == <<char_id[1], char_id[2], ".json">>

\* a character directory whose record is also kept as a flat file of the old
\* layout, with the role it had then
LegacyFile ==
    /\ last = NoCall
    /\ \E char_id \in DOMAIN chars :
          /\ HasRecord(char_id)
          /\ FlatOf(char_id) \notin DOMAIN chars
          /\ Fits({FlatOf(char_id)})
          /\ chars' = (FlatOf(char_id) :> [chars[char_id] EXCEPT !.role = "legacy"]) @@ chars
    /\ last' = [op |-> "legacy_file", raised |-> FALSE, calls |-> <<>>, textCalls |-> 0]
    /\ UNCHANGED <<stories, index, indexAuto, images, uuids>>

\* json.dump into a file opened with 'w' is interrupted: the file is left
\* with text that does not parse
InterruptedWrite ==
    /\ last = NoCall
    /\ \/ /\ \E item \in DOMAIN chars :
                /\ chars[item] \notin {NoMetadata, Malformed}
                /\ chars' = [chars EXCEPT ![item] = Malformed]
          /\ UNCHANGED stories
       \/ /\ \E story_id \in DOMAIN stories :
                /\ stories[story_id] # Malformed
                /\ stories' = [stories EXCEPT ![story_id] = Malformed]
          /\ UNCHANGED chars
    /\ last' = [op |-> "interrupted_write", raised |-> FALSE, calls |-> <<>>, textCalls |-> 0]
    /\ UNCHANGED <<index, indexAuto, images, uuids>>

LookupIds == {CharId(name, prefix) : name \in CharNames, prefix \in Prefixes} \cup {rohan_data.id}

GetCharacterById ==
    /\ last = NoCall
    /\ \E char_id \in LookupIds :
          last' = [op |-> "get_character_by_id", id |-> char_id, calls |-> <<>>, textCalls |-> 0]
                  @@ get_character_by_id(char_id)
    /\ UNCHANGED stores

GetAllCharacters ==
    /\ last = NoCall
    /\ \E order \in Listings(DOMAIN chars) :
          last' = [op |-> "get_all_characters", order |-> order, raised |-> FALSE,
                   ret |-> get_all_characters(order), calls |-> <<>>, textCalls |-> 0]
    /\ UNCHANGED stores

GetAllStories ==
    /\ last = NoCall
    /\ last' = [op |-> "get_all_stories", raised |-> FALSE, ret |-> get_all_stories,
                calls |-> <<>>, textCalls |-> 0]
    /\ UNCHANGED stores

StoreSaveStory == SaveStory(CHOOSE text \in StoryTexts : TRUE, <<>>, "ok")

NextStore ==
    \/ StoreAddFromImages
    \/ StoreAddFromDescription
    \/ create_gandhinagar_project
    \/ LegacyFile
    \/ InterruptedWrite
    \/ GetCharacterById
    \/ GetAllCharacters
    \/ StoreSaveStory
    \/ GetAllStories
    \/ Return

SpecStore == Init /\ [][NextStore]_vars

(***************************************************************************)
(* Writes of the retrieval index, through the managers and directly        *)
(***************************************************************************)
\* the metadata a caller hands to add_story_to_index: None, a dictionary
\* that carries the id of an earlier story, or the record of a saved story
StoryMetadata == {<<>>} \cup {[id |-> i] : i \in 1..uuids} \cup Range(stories)

\* the texts indexed directly: the text the saves use, and another one
RewrittenTexts ==
    {CHOOSE text \in StoryTexts : TRUE, <<A("Kabir"), SP, A("was"), SP, A("early.")>>}

\* rag_index.add_story_to_index(story_text, metadata) called by itself
AddStoryToIndex ==
    \E text \in RewrittenTexts, metadata \in StoryMetadata, idx \in IndexOutcomes :
        LET added == add_story_to_index(text, metadata, idx)
            drawn == IF "id" \in DOMAIN metadata \/ idx = "vs_error" THEN 0 ELSE 1
        IN  /\ last = NoCall
            /\ uuids + drawn <= MaxStories
            /\ idx = "ok" => IndexSize < MaxDocs
            /\ index' = added.index
            /\ uuids' = uuids + drawn
            /\ last' = [op |-> "add_story_to_index", raised |-> added.raised,
                        ret |-> added.metadata, calls |-> <<>>, textCalls |-> 0,
                        idx |-> idx]
            /\ UNCHANGED <<chars, stories, indexAuto, images>>

\* rag_index.add_character_to_index(char_data, json_path) called by itself
\* on a record of the store
AddCharacterToIndex ==
    \E item \in DOMAIN chars, idx \in IndexOutcomes :
        LET added == add_character_to_index(chars[item], item, idx)
        IN  /\ last = NoCall
            /\ HasRecord(item)
            /\ idx = "ok" => IndexSize < MaxDocs
            /\ indexAuto' = added.indexAuto
            /\ last' = [op |-> "add_character_to_index", raised |-> added.raised,
                        ret |-> chars[item], calls |-> <<>>, textCalls |-> 0,
                        idx |-> idx]
            /\ UNCHANGED <<chars, stories, index, images, uuids>>

\* the managers' own writes: one character added again and again, and saves
IndexAddFromImages ==
    \E d \in Descriptions : AddCharacterFromImages(RepeatedName, SomePrefix, d, NoTags, "ok")

IndexSaveStory == SaveStory(CHOOSE text \in StoryTexts : TRUE, <<>>, "ok")

NextIndex ==
    \/ IndexAddFromImages
    \/ AddCharacterToIndex
    \/ IndexSaveStory
    \/ AddStoryToIndex
    \/ Return

SpecIndex == Init /\ [][NextIndex]_vars


(***************************************************************************)
(* Properties                                                              *)
(***************************************************************************)
Op == last.op

\* the requests the call just made sent to the image provider
CallsMade == IF last = NoCall THEN <<>> ELSE last.calls

CreationOps == {"add_character_from_images", "add_character_from_description"}

\* C1: every prompt from which a request to the image provider is built
\* contains the safety clause verbatim after its blanks are collapsed
C1_EveryPromptHasSafetySuffix ==
    \A i \in DOMAIN CallsMade : Contains(CallsMade[i].clean, SAFETY_SUFFIX)

\* the stored records whose name is name, case-insensitively
StoredByName(name) ==
    {id \in DOMAIN chars : Lower(Get(chars[id], "name", "")) = Lower(name)}

HasName(records, name) ==
    \E j \in DOMAIN records : Lower(Get(records[j], "name", "")) = Lower(name)

\* a resolution that ran to its end: every search returned a document or nothing
Resolved == Op = "recreate_with_characters" /\ last.description # "error"

\* C2: whatever each search returns, a requested name that the character
\* store holds case-insensitively is resolved to a record with that name
C2_ExactNameGuard ==
    Resolved =>
        \A i \in DOMAIN last.names :
            StoredByName(last.names[i]) # {} => HasName(last.resolved, last.names[i])

\* the search for name returned a document that names another character, has
\* no marker or cannot be parsed, and the store holds the name
Misled(name) ==
    /\ name \in DOMAIN last.oracle
    /\ last.oracle[name].kind = "doc"
    /\ AcceptedFromIndex(<<last.oracle[name].doc>>, name) = <<>>
    /\ StoredByName(name) # {}

C2_Witness ==
    /\ Resolved
    /\ \E name \in Range(last.names) :
          /\ Misled(name)
          /\ Contains(last.oracle[name].doc.page_content, <<FULL_DATA>>)
          /\ JsonLoads(AfterMarker(last.oracle[name].doc.page_content)).ok
          /\ HasName(last.resolved, name)

\* C3: every record a resolution returns is a record of the character store
C3_ResolvedRecordsAreStored ==
    Op = "recreate_with_characters" =>
        \A j \in DOMAIN last.resolved : \E id \in DOMAIN chars : chars[id] = last.resolved[j]

\* C4: a creation whose index write fails still returns the stored record
C4_IndexFailureSwallowed ==
    (Op \in CreationOps \cup {"save_story"} /\ last.idx # "ok"
       /\ \A i \in DOMAIN last.calls : last.calls[i].outcome = "ok")
    => ~last.raised

\* delete_story(id) returned, and id is the id of a story that was saved
DeleteReturned == Op = "delete_story" /\ ~last.raised /\ last.id <= uuids

StoryGone(id) ==
    /\ id \notin DOMAIN stories
    /\ \A i \in DOMAIN get_all_stories : get_all_stories[i].id # id

Unindexed(id) ==
    /\ id \notin DOMAIN index
    /\ \A d \in IndexDocs : Get(d.metadata, "id", 0) # id

\* C5 as stated: once delete_story(id) has returned, the file of the story
\* is gone and the index holds no document with that id
C5_DeleteRemovesBoth == DeleteReturned => StoryGone(last.id) /\ Unindexed(last.id)

\* C5 amended: once delete_story(id) has returned True the file is gone, and
\* the index holds no document with that id when its delete did not fail
C5_DeleteRemovesFileAndIndexIfItCan ==
    (DeleteReturned /\ last.ret) =>
        /\ StoryGone(last.id)
        /\ last.idx = "ok" => Unindexed(last.id)

C5_Witness ==
    /\ DeleteReturned /\ last.ret /\ last.idx = "ok"
    /\ last.existed /\ last.indexed
    /\ StoryGone(last.id) /\ Unindexed(last.id)

\* C6: when nothing fails, the story documents of the index are the stories
\* on disk, each under its own id
C6_IndexMirrorsStories ==
    /\ DOMAIN index = DOMAIN stories
    /\ \A i \in DOMAIN index : index[i].metadata.id = i /\ stories[i].id = i
    /\ \A d \in BagToSet(indexAuto) : Get(d.metadata, "type", "") # "story"

C6_Witness ==
    /\ Op = "delete_story" /\ last.existed /\ last.indexed
    /\ DOMAIN stories # {}
    /\ C6_IndexMirrorsStories

\* C7: a creation that writes a record never writes it under an id that an
\* earlier creation was given
C7_IdsAreUnique == (Op \in CreationOps /\ last.written) => last.fresh

\* the character clauses and the character names in a clean prompt
Described(clean) == Count(clean, A("):"))

RECURSIVE SumOver(_, _)
SumOver(S, clean) ==
    IF S = {} THEN 0
    ELSE LET n == CHOOSE x \in S : TRUE IN Count(clean, A(n)) + SumOver(S \ {n}, clean)

Named(clean) == SumOver(CharNames, clean)

\* the sequence of records an orchestrator builds its image prompt from
Grounding ==
    IF Op = "recreate_with_characters" THEN last.resolved
    ELSE IF Op = "answer_question" THEN last.sheets ELSE <<>>

\* C9: an image prompt of recreate_with_characters or answer_question describes
\* at most 3 characters and names each at most twice, and a record after the
\* third one is not named unless one of the first 3 has its name
C9_AtMostThreeCharacters ==
    (Op \in {"recreate_with_characters", "answer_question"} /\ last.calls # <<>>) =>
        LET clean == last.calls[1].clean
        IN  /\ Described(clean) <= 3
            /\ Named(clean) <= 6
            /\ \A j \in DOMAIN Grounding :
                  (j > 3 /\ \A i \in 1..3 : Grounding[i].name # Grounding[j].name)
                  => Count(clean, A(Grounding[j].name)) = 0
            /\ \A i \in DOMAIN Grounding :
                  i <= 3 => Count(clean, A(Grounding[i].name)) > 0

C9_Witness ==
    /\ Op = "recreate_with_characters"
    /\ Len(last.resolved) > 3
    /\ last.calls # <<>>
    /\ Described(last.calls[1].clean) = 3
    /\ \E j \in DOMAIN last.resolved :
          j > 3 /\ Count(last.calls[1].clean, A(last.resolved[j].name)) = 0

\* the same case in answer_question: more than 3 sheets were retrieved
C9_WitnessQA ==
    /\ Op = "answer_question"
    /\ Len(last.sheets) > 3
    /\ last.calls # <<>>
    /\ Described(last.calls[1].clean) = 3

\* C10: with an empty character store and no names, recreate_with_characters
\* reports that no characters were found and calls no image provider
C10_EmptyStoreNoNames ==
    (Op = "recreate_with_characters" /\ last.names = <<>> /\ DOMAIN chars = {}) =>
        /\ ~last.raised
        /\ last.resolved = <<>>
        /\ last.description = "no_characters"
        /\ last.image_path = NoImage
        /\ last.calls = <<>>

C10_Witness ==
    /\ Op = "recreate_with_characters" /\ last.names = <<>> /\ DOMAIN chars = {}
    /\ IndexDocs # {}
    /\ last.description = "no_characters"

\* the panel numbers of the panels whose image was generated, in input order
RECURSIVE PathsOfGenerated(_, _)
PathsOfGenerated(prompts, calls) ==
    IF prompts = <<>> THEN <<>>
    ELSE (IF Head(calls).outcome = "ok" THEN <<Get(Head(prompts), "panel", 1)>> ELSE <<>>)
         \o PathsOfGenerated(Tail(prompts), Tail(calls))

Failed(calls) == {i \in DOMAIN calls : calls[i].outcome # "ok"}

\* C8: a failing image request yields no image and raises nothing, and
\* render_comic_panels over n prompts of which k fail requests every panel
\* once and returns the n-k paths of the generated panels in input order
C8_FailureAbsorbedPerPanel ==
    Op = "render_comic_panels" =>
        /\ ~last.raised
        /\ Len(last.calls) = Len(last.prompts)
        /\ \A i \in Failed(last.calls) : ImageOf(last.calls[i]) = NoImage
        /\ Len(last.ret) = Len(last.prompts) - Cardinality(Failed(last.calls))
        /\ last.ret = PathsOfGenerated(last.prompts, last.calls)

C8_Witness ==
    /\ Op = "render_comic_panels"
    /\ Len(last.prompts) = 3
    /\ Failed(last.calls) = {2}
    /\ Len(last.ret) = 2


\* the fields of a record that the caller of a creation supplies
SuppliedFields ==
    {"name", "role", "age", "visual_description", "personality_description", "tags"}

\* the fields the caller gave a value: the tags may be left out
Given(supplied) == IF supplied.tags.given THEN SuppliedFields ELSE SuppliedFields \ {"tags"}

AsGiven(supplied) ==
    [f \in SuppliedFields |-> IF f = "tags" THEN supplied.tags.value ELSE supplied[f]]

\* a creation has returned its record
Created == Op \in CreationOps /\ ~last.raised

\* C11: the record get_character_by_id reads back for the id a creation
\* returned is the returned record, and it has the supplied name, role, age,
\* descriptions and tags
C11_RoundTrip ==
    Created =>
        LET got == get_character_by_id(last.ret.id)
        IN  /\ ~got.raised
            /\ got.ret = last.ret
            /\ \A f \in Given(last.supplied) : got.ret[f] = AsGiven(last.supplied)[f]

\* the entries of the character directory that hold a record
Records == {item \in DOMAIN chars : chars[item] \notin {NoMetadata, Malformed}}

\* every character is persisted once: no two entries hold the same id
PersistedOnce == \A a, b \in Records : chars[a].id = chars[b].id => a = b

Listed == Op = "get_all_characters"

\* C12: over a directory whose characters are each persisted once, in either
\* layout, get_all_characters returns one record per stored character and no
\* record twice
C12_OneRecordPerCharacter ==
    (Listed /\ PersistedOnce) =>
        /\ Len(last.ret) = Cardinality(Records)
        /\ \A item \in Records : \E i \in DOMAIN last.ret : last.ret[i] = chars[item]
        /\ \A i, j \in DOMAIN last.ret : last.ret[i].id = last.ret[j].id => i = j

C12_Witness ==
    /\ Listed /\ PersistedOnce
    /\ \E a, b \in Records : IsDir(a) /\ IsJsonFile(b)
    /\ Len(last.ret) = 3

\* C13: when a directory and a flat file hold the same character id,
\* get_all_characters returns one record with that id, the directory's
C13_DirectoryTakesPrecedence ==
    Listed =>
        \A d, f \in Records :
            (IsDir(d) /\ IsJsonFile(f) /\ chars[d].id = chars[f].id) =>
                /\ Cardinality({i \in DOMAIN last.ret : last.ret[i].id = chars[d].id}) = 1
                /\ \E i \in DOMAIN last.ret : last.ret[i] = chars[d]

\* the records of the entries of order that hold one, in the order of order
RECURSIVE WellFormed(_)
WellFormed(order) ==
    IF order = <<>> THEN <<>>
    ELSE (IF Head(order) \in Records THEN <<chars[Head(order)]>> ELSE <<>>)
         \o WellFormed(Tail(order))

StoryRecords == {i \in DOMAIN stories : stories[i] # Malformed}

\* C14: the scans skip the records that do not parse and return every other
\* record, wherever the malformed ones are in the listing
C14_MalformedSkipped ==
    /\ Listed => ~last.raised /\ last.ret = WellFormed(last.order)
    /\ Op = "get_all_stories" =>
          /\ ~last.raised
          /\ Len(last.ret) = Cardinality(StoryRecords)
          /\ \A i \in StoryRecords : \E j \in DOMAIN last.ret : last.ret[j] = stories[i]

C14_Witness ==
    /\ Listed
    /\ Len(last.order) = 3
    /\ chars[last.order[1]] = Malformed
    /\ chars[last.order[2]] \in {Malformed, NoMetadata}
    /\ Len(last.ret) = 1

\* the same case in get_all_stories
C14_WitnessStories ==
    /\ Op = "get_all_stories"
    /\ \E i, j \in DOMAIN stories : i < j /\ stories[i] = Malformed /\ stories[j] # Malformed
    /\ Len(last.ret) = 1

\* C15: get_character_by_id raises nothing; it returns the record stored
\* under the id, or nothing when there is none
C15_LookupNeverRaises ==
    Op = "get_character_by_id" =>
        /\ ~last.raised
        /\ IF HasRecord(last.id) THEN last.ret = chars[last.id] ELSE last.ret = NoCharacter

\* C16: once delete_story has removed the file of the story it returns True
\* and raises nothing, whether or not the deletion from the index fails
C16_IndexNeverBlocksDelete ==
    (Op = "delete_story" /\ last.existed /\ last.id \notin DOMAIN stories) =>
        ~last.raised /\ last.ret

\* every search of the call failed: the vector store could not be built, or
\* the similarity search raised
SearchFailed ==
    /\ Op = "recreate_with_characters" /\ last.names # <<>>
    /\ last.vs => \A name \in Range(last.names) : last.oracle[name].kind = "error"

\* C17: when the search provider fails, search_characters returns nothing
\* and every requested name is resolved from the character store alone
C17_SearchFailureDegrades ==
    SearchFailed =>
        /\ last.description # "error"
        /\ \A i \in DOMAIN last.names :
              StoredByName(last.names[i]) # {} => HasName(last.resolved, last.names[i])
        /\ \A j \in DOMAIN last.resolved : \E id \in DOMAIN chars : chars[id] = last.resolved[j]

Asked == Op = "answer_question"

\* C18: answer_question raises nothing and calls the text provider once; it
\* returns at most 3 images, none when the text provider fails, and with a
\* retriever that cannot be loaded or that raises it has no context, sends
\* no image request and returns no image
C18_QADegrades ==
    Asked =>
        /\ ~last.raised
        /\ last.textCalls = 1
        /\ Len(last.images) <= 3
        /\ ~last.answered => last.images = <<>>
        /\ last.retriever # "ok" =>
              last.sheets = <<>> /\ last.calls = <<>> /\ last.images = <<>>

C18_Witness ==
    /\ Asked
    /\ last.retriever = "invoke_error"
    /\ IndexDocs # {}
    /\ IsImageRequest(last.query)
    /\ last.answered /\ last.textCalls = 1 /\ last.images = <<>>

\* the case of more than 3 images found and generated
C18_WitnessTruncated ==
    /\ Asked /\ last.answered
    /\ Len(last.relevant_images) > 3
    /\ Len(last.images) = 3

\* the text provider calls of the call just made
TextCallsMade == IF last = NoCall THEN 0 ELSE last.textCalls

RECURSIVE Shaped(_, _)
Shaped(names, resolved) ==
    IF names = <<>> THEN resolved = <<>>
    ELSE \/ /\ resolved # <<>>
            /\ Lower(Get(Head(resolved), "name", "")) = Lower(Head(names))
            /\ Shaped(Tail(names), Tail(resolved))
         \/ Shaped(Tail(names), resolved)

\* C20: the resolved sequence has at most one record per requested name, in
\* the order of the requested names, each named like the name it stands for;
\* a name that is not resolved is left out and the names after it are still
\* resolved
C20_ResolutionShape ==
    (Resolved /\ last.names # <<>>) =>
        /\ Len(last.resolved) <= Len(last.names)
        /\ Shaped(last.names, last.resolved)
        /\ Len(last.resolved) >=
              Cardinality({i \in DOMAIN last.names : StoredByName(last.names[i]) # {}})

C20_Witness ==
    /\ Resolved
    /\ Len(last.names) >= 2
    /\ ~HasName(last.resolved, last.names[1])
    /\ \E i \in DOMAIN last.names : i > 1 /\ HasName(last.resolved, last.names[i])
    /\ Len(last.resolved) = Len(last.names) - 1

\* C21: with no names given, recreate_with_characters resolves to exactly the
\* records of get_all_characters, in the order of that listing, and makes no
\* search of the retrieval index
C21_AbsentNamesListAll ==
    (Op = "recreate_with_characters" /\ last.names = <<>>) =>
        /\ last.searches = 0
        /\ last.description # "no_characters" => last.resolved = get_all_characters(last.order)
        /\ last.description = "no_characters" <=> get_all_characters(last.order) = <<>>

C21_Witness ==
    /\ Op = "recreate_with_characters"
    /\ last.names = <<>>
    /\ Len(last.resolved) >= 2
    /\ last.resolved = get_all_characters(last.order)
    /\ index # <<>>
\* C22: retrieval documents are never updated in place: every write of the
\* index, of a character or of a story, already indexed or not, adds one
\* document and leaves the documents that were there as they were
IndexWrites ==
    {"add_character_from_images", "add_character_from_description", "add_character_to_index",
     "save_story", "add_story_to_index"}

C22_NeverUpdatedInPlace ==
    [][(last'.op \in IndexWrites /\ last'.idx = "ok") =>
          /\ IndexSize' = IndexSize + 1
          /\ \A i \in DOMAIN index : i \in DOMAIN index' /\ index'[i] = index[i]
          /\ \A d \in BagToSet(indexAuto) : CopiesIn(d, indexAuto') >= CopiesIn(d, indexAuto)]_vars
\* delete_story(id) found the file of the story and could not remove it
RemoveFailed == Op = "delete_story" /\ last.existed /\ last.id \in DOMAIN stories

\* C23: when the story file cannot be removed, delete_story returns False
\* without raising, makes no call to the retrieval index, and the document
\* of the story is still in the index
C23_StoreFailureLeavesIndex ==
    RemoveFailed =>
        /\ ~last.raised /\ last.ret = FALSE
        /\ last.indexCalls = 0
        /\ last.indexed => (last.id \in DOMAIN index /\ index[last.id].metadata.id = last.id)

C23_Witness ==
    /\ RemoveFailed /\ last.indexed
    /\ last.ret = FALSE /\ last.indexCalls = 0
    /\ last.id \in DOMAIN index
\* add_character_from_description gave up because no image was generated
ImageFailed == Op = "add_character_from_description" /\ ~last.written

\* the listings after the call that correspond to the listing order before
\* it: the directory char_id, when it is new, may be named at any place
OrdersAfter(order, char_id) ==
    IF char_id \in DOMAIN chars THEN {order}
    ELSE {SubSeq(order, 1, k) \o <<char_id>> \o SubSeq(order, k + 1, Len(order)) :
             k \in 0..Len(order)}

\* C24: when the image cannot be generated add_character_from_description
\* raises; get_all_characters returns the records it returned before, the
\* allocated id is not found by get_character_by_id, and the retrieval index
\* and the image files are as they were
C24_FailedCreationLeavesStores ==
    [][\A char_id \in LookupIds :
          (ImageFailed' /\ last'.ret.id = char_id) =>
              /\ last'.raised
              /\ index' = index /\ indexAuto' = indexAuto /\ images' = images
              /\ stories' = stories
              /\ DOMAIN chars' = DOMAIN chars \cup {char_id}
              /\ \A order \in Listings(DOMAIN chars) :
                    \A after \in OrdersAfter(order, char_id) :
                        get_all_characters(after)' = get_all_characters(order)
              /\ last'.fresh =>
                    get_character_by_id(char_id)' = [raised |-> FALSE, ret |-> NoCharacter]]_vars

C24_Witness ==
    /\ ImageFailed /\ last.raised /\ last.fresh
    /\ last.ret.id \in DOMAIN chars /\ chars[last.ret.id] = NoMetadata
    /\ Records # {}
    /\ IndexSize > 0
StoryFields == {"id", "title", "content", "created_at", "type"}

\* C25: the record save_story returns has the five story fields and is the
\* record get_all_stories reads back for its id
C25_ReturnedStoryIsPersisted ==
    (Op = "save_story" /\ ~last.raised) =>
        /\ DOMAIN last.ret = StoryFields
        /\ \E i \in DOMAIN get_all_stories :
              get_all_stories[i].id = last.ret.id /\ get_all_stories[i] = last.ret
\* answer_question generated an image on request and saved it
ImageSaved == Asked /\ last.calls # <<>> /\ ImageOf(last.calls[1]) # NoImage

\* C26: an image generated and saved by answer_question is among the images
\* it returns, and the system note announces as many images as are returned
C26_GeneratedImageReturned ==
    Asked =>
        /\ ImageSaved => GENERATED_PATH \in Range(last.images)
        /\ last.announced = Len(last.images)

\* the input position of the k-th panel whose image was generated
NthGenerated(calls, k) ==
    CHOOSE i \in DOMAIN calls :
        /\ calls[i].outcome = "ok"
        /\ Cardinality({j \in 1..i : calls[j].outcome = "ok"}) = k

\* the image render_comic_panels saves for the panel at input position i
PanelImage(prompts, calls, i) ==
    LET dialogue == Get(prompts[i], "dialogue", <<>>)
    IN  IF dialogue # <<>> THEN add_dialogue_overlay(ImageOf(calls[i]), dialogue)
        ELSE ImageOf(calls[i])

\* C27: the paths render_comic_panels returns are pairwise distinct, and the
\* file each of them names holds the image generated for its own panel
C27_PanelPathsDistinct ==
    Op = "render_comic_panels" =>
        /\ \A a, b \in DOMAIN last.ret : a # b => last.ret[a] # last.ret[b]
        /\ \A k \in DOMAIN last.ret :
              last.files[last.ret[k]]
                 = PanelImage(last.prompts, last.calls, NthGenerated(last.calls, k))
====
